---- MODULE Spec2Model ----
(***************************************************************************)
(* GreenLeaf Organics, Norwood store: the order engine                      *)
(* (validate_and_place_order, adjust_stock) over the Cosmos products and    *)
(* orders containers, and the summary engine (store_summary) over the       *)
(* Azure SQL daily_summary table.                                           *)
(*                                                                          *)
(* Every container call (read_item, replace_item, upsert_item) is one step  *)
(* of the calling request, so that requests of several workers can          *)
(* interleave between their store calls.  Spec admits one request at a      *)
(* time, SpecConc any interleaving of requests on one product, SpecSummary  *)
(* the store_summary calls.  The artifact renderers (pdf_utils) either      *)
(* return or raise.                                                         *)
(***************************************************************************)
EXTENDS Integers, Sequences, FiniteSets, TLC

\* ------------------------------------------------------------------
\* Bounds of the model
\* ------------------------------------------------------------------
MaxCalls == 2
MaxItems == 2
MaxSummaryCalls == 3

\* ------------------------------------------------------------------
\* Program constants
\* ------------------------------------------------------------------
SeedStock == 20
LowStockThreshold == 10

\* ------------------------------------------------------------------
\* Input domains
\* ------------------------------------------------------------------
Procs == {"w1", "w2"}
SerialWorker == "w1"
CatalogIds == {"prod_001", "prod_002"}
MissingId == "prod_404"
Qtys == {12}
Adjustments == {-15, -8, 4}
Emails == {"a@x"}
Dates == {"d1", "d2"}
ConcDate == "d1"
ConcProduct == "prod_001"
ReportEmails == {"a@x", "b@x"}

ProductName(pid) ==
  CASE pid = "prod_001" -> "Apple"
    [] pid = "prod_002" -> "Banana"
    [] OTHER -> "Gone"

\* prices in tenths of a dollar
ProductPrice(pid) ==
  CASE pid = "prod_001" -> 35
    [] pid = "prod_002" -> 28
    [] OTHER -> 10

SeedProducts ==
  [pid \in CatalogIds |->
     [id |-> pid, name |-> ProductName(pid), stock_quantity |-> SeedStock]]

\* ------------------------------------------------------------------
\* Orders as the submit handlers build them
\* ------------------------------------------------------------------
Item(pid, qty) ==
  [product_id |-> pid, product_name |-> ProductName(pid),
   quantity |-> qty, unit_price |-> ProductPrice(pid)]

RECURSIVE ItemsTotal(_)
ItemsTotal(items) ==
  IF items = <<>> THEN 0
  ELSE items[1].quantity * items[1].unit_price + ItemsTotal(Tail(items))

OrderId(d, email) == <<"order", d, email>>

MakeOrder(d, email, items) ==
  [id |-> OrderId(d, email), order_date |-> d, email |-> email,
   items |-> items, order_total |-> ItemsTotal(items)]

AllItems == {Item(pid, q) : pid \in CatalogIds \cup {MissingId}, q \in Qtys}

ItemLists == UNION {[1..n -> AllItems] : n \in 1..MaxItems}

\* the orders of the interleaved runs: all items on the one contended product
ConcItemLists ==
  UNION {[1..n -> {Item(ConcProduct, q) : q \in Qtys}] : n \in 1..MaxItems}

\* the orders of the reporting runs: one item, or the same item twice
ReportItemLists ==
  {<<Item(pid, q)>> : pid \in CatalogIds, q \in Qtys}
  \cup {<<Item(ConcProduct, q), Item(ConcProduct, q)>> : q \in Qtys}

\* ------------------------------------------------------------------
\* Containers
\* ------------------------------------------------------------------
RECURSIVE IndexOfId(_, _, _)
IndexOfId(os, id, k) ==
  IF k > Len(os) THEN 0
  ELSE IF os[k].id = id THEN k ELSE IndexOfId(os, id, k + 1)

\* orders_container.upsert_item: replace the document with the same id,
\* otherwise add it
UpsertItem(os, doc) ==
  LET k == IndexOfId(os, doc.id, 1) IN
  IF k = 0 THEN Append(os, doc) ELSE [os EXCEPT ![k] = doc]

\* ------------------------------------------------------------------
\* Warnings (the f-strings, kept as their parts)
\* ------------------------------------------------------------------
PreorderWarning(n) == <<"Pre-order placed for", n, "unit(s)">>
LowStockWarning(name, qty) == <<"Low stock alert:", name, qty, "left">>

\* ------------------------------------------------------------------
\* The decisions of the order engine
\* ------------------------------------------------------------------
OversoldOffByOne(requested, available) == requested >= available

\* if requested > available
Oversold(requested, available) == requested > available

ClampedNot(requested, available) == requested

\* requested = available on a pre-order, otherwise requested as given
Clamped(requested, available) ==
  IF Oversold(requested, available) THEN available ELSE requested

ClampAtZeroMissing(q) == q

\* if product["stock_quantity"] < 0: product["stock_quantity"] = 0
ClampAtZero(q) == IF q < 0 THEN 0 ELSE q

\* a check that alerts only once the product has run out
IsLowStockAtZero(q) == q <= 0

\* if product["stock_quantity"] < 10
IsLowStock(q) == q < LowStockThreshold

\* ------------------------------------------------------------------
\* State
\* ------------------------------------------------------------------
VARIABLES
  products,   \* products container: id -> product document
  orders,     \* orders container: sequence of order documents, unique ids
  pc,         \* per worker: position in the running request
  args,       \* per worker: arguments of the running request
  loc,        \* per worker: local variables of the running request
  result,     \* per worker: what the last request returned or raised
  pre,        \* per worker: containers as they were when the request started
  calls,      \* number of order-engine requests started so far
  sqlRows,    \* committed rows of daily_summary
  sqlTxn,     \* rows inserted on the connection and not yet committed
  sqlConn,    \* whether _sql_conn has been opened
  pdfs,       \* summaries whose artifact has been rendered
  sumLast,    \* outcome of the last store_summary call
  sumCalls,   \* number of store_summary calls so far
  genLast     \* the last two generate_daily_summary calls and what they saw

orderVars == <<products, orders, pc, args, loc, result, pre, calls>>
sqlVars == <<sqlRows, sqlTxn, sqlConn, pdfs, sumLast, sumCalls>>
sumVars == <<sqlVars, genLast>>
vars == <<products, orders, pc, args, loc, result, pre, calls,
          sqlRows, sqlTxn, sqlConn, pdfs, sumLast, sumCalls, genLast>>

NoProduct == [id |-> "", name |-> "", stock_quantity |-> 0]
NoArgs == [fn |-> "none",
           order |-> MakeOrder("", "", <<>>), allow_preorder |-> FALSE,
           product_id |-> "", adjustment |-> 0]
NoLoc == [i |-> 0, product |-> NoProduct, warnings |-> <<>>, granted |-> <<>>]
NoResult == [status |-> "none", message |-> 0, available |-> 0,
             preorder |-> FALSE, warnings |-> <<>>, order_id |-> <<>>,
             value |-> 0]

ErrorResultRequested(available) ==
  [NoResult EXCEPT !.status = "error", !.message = available,
                   !.available = available + 1, !.preorder = TRUE]

\* the error result of an oversold item
ErrorResult(available) ==
  [NoResult EXCEPT !.status = "error", !.message = available,
                   !.available = available, !.preorder = TRUE]

\* the success result
SuccessResult(warnings, order_id) ==
  [NoResult EXCEPT !.status = "success", !.warnings = warnings,
                   !.order_id = order_id]

\* a fault turned into a refusal
RaisedAsRefusal(what) == [NoResult EXCEPT !.status = "error"]

\* an exception that leaves the function
Raised(what) == [NoResult EXCEPT !.status = what]

NoSummary == [date |-> "", total_orders |-> 0, total_revenue |-> 0,
              most_popular_product |-> "None"]
NoSumLast == [returned |-> "none", summary |-> NoSummary, fault |-> "none",
              committed |-> FALSE, renderCalls |-> 0, rendered |-> 0]
NoGenCall == [date |-> "", summary |-> NoSummary, ordersAt |-> <<>>]
NoGenLast == [last |-> NoGenCall, prev |-> NoGenCall]

Init ==
  /\ products = SeedProducts
  /\ orders = <<>>
  /\ pc = [p \in Procs |-> "idle"]
  /\ args = [p \in Procs |-> NoArgs]
  /\ loc = [p \in Procs |-> NoLoc]
  /\ result = [p \in Procs |-> NoResult]
  /\ pre = [p \in Procs |-> [products |-> SeedProducts, orders |-> <<>>]]
  /\ calls = 0
  /\ sqlRows = {}
  /\ sqlTxn = {}
  /\ sqlConn = FALSE
  /\ pdfs = {}
  /\ sumLast = NoSumLast
  /\ sumCalls = 0
  /\ genLast = NoGenLast

Resting(p) == pc[p] \in {"idle", "done", "raised"}
Quiescent == \A p \in Procs : Resting(p)

\* ------------------------------------------------------------------
\* validate_and_place_order
\* ------------------------------------------------------------------
\* entry: warnings = [], then the first iteration of the loop (or straight
\* to the upsert when the order has no items)
CallPlaceOrder(p, order, allow) ==
  /\ Resting(p)
  /\ calls < MaxCalls
  /\ calls' = calls + 1
  /\ args' = [args EXCEPT ![p] =
                [NoArgs EXCEPT !.fn = "validate_and_place_order",
                               !.order = order, !.allow_preorder = allow]]
  /\ loc' = [loc EXCEPT ![p] = [NoLoc EXCEPT !.i = 1]]
  /\ result' = [result EXCEPT ![p] = NoResult]
  /\ pre' = [pre EXCEPT ![p] = [products |-> products, orders |-> orders]]
  /\ pc' = [pc EXCEPT ![p] =
              IF order.items = <<>> THEN "upsert_item" ELSE "read_item"]
  /\ UNCHANGED <<products, orders>>

\* an iteration that refuses an oversold item whatever allow_preorder says
ReadItemRefusing(p) ==
  /\ pc[p] = "read_item"
  /\ LET item == args[p].order.items[loc[p].i] IN
     IF item.product_id \notin DOMAIN products
     THEN /\ pc' = [pc EXCEPT ![p] = "raised"]
          /\ result' = [result EXCEPT ![p] = Raised("NotFound")]
          /\ UNCHANGED loc
     ELSE LET product == products[item.product_id]
              available == product.stock_quantity
              requested == item.quantity
          IN
          IF Oversold(requested, available)
          THEN /\ pc' = [pc EXCEPT ![p] = "done"]
               /\ result' = [result EXCEPT ![p] = ErrorResult(available)]
               /\ UNCHANGED loc
          ELSE /\ loc' = [loc EXCEPT ![p] =
                    [@ EXCEPT !.product =
                                 [product EXCEPT !.stock_quantity =
                                                    @ - requested],
                              !.granted = Append(@, requested)]]
               /\ pc' = [pc EXCEPT ![p] = "replace_item"]
               /\ UNCHANGED result
  /\ UNCHANGED <<products, orders, args, pre, calls>>

\* products_container.read_item for item i, then the in-memory part of the
\* iteration up to the replace_item call
ReadItem(p) ==
  /\ pc[p] = "read_item"
  /\ LET item == args[p].order.items[loc[p].i] IN
     IF item.product_id \notin DOMAIN products
     THEN \* read_item raises CosmosResourceNotFoundError
          /\ pc' = [pc EXCEPT ![p] = "raised"]
          /\ result' = [result EXCEPT ![p] = Raised("NotFound")]
          /\ UNCHANGED loc
     ELSE LET product == products[item.product_id]
              available == product.stock_quantity
              requested == item.quantity
          IN
          IF Oversold(requested, available) /\ ~args[p].allow_preorder
          THEN /\ pc' = [pc EXCEPT ![p] = "done"]
               /\ result' = [result EXCEPT ![p] = ErrorResult(available)]
               /\ UNCHANGED loc
          ELSE LET clamped == Clamped(requested, available)
                   warned == IF Oversold(requested, available)
                             THEN Append(loc[p].warnings,
                                    PreorderWarning(requested - available))
                             ELSE loc[p].warnings
               IN
               /\ loc' = [loc EXCEPT ![p] =
                    [@ EXCEPT !.product =
                                 [product EXCEPT !.stock_quantity =
                                                    @ - clamped],
                              !.warnings = warned,
                              !.granted = Append(@, clamped)]]
               /\ pc' = [pc EXCEPT ![p] = "replace_item"]
               /\ UNCHANGED result
  /\ UNCHANGED <<products, orders, args, pre, calls>>

\* a replace_item whose write never reaches the container
ReplaceItemLost(p) ==
  /\ pc[p] = "replace_item"
  /\ LET product == loc[p].product IN
     /\ products' = products
     /\ loc' = [loc EXCEPT ![p] =
          [@ EXCEPT !.i = @ + 1,
                    !.warnings =
                       IF IsLowStock(product.stock_quantity)
                       THEN Append(@, LowStockWarning(product.name,
                                                      product.stock_quantity))
                       ELSE @]]
     /\ pc' = [pc EXCEPT ![p] =
                 IF loc[p].i + 1 > Len(args[p].order.items)
                 THEN "upsert_item" ELSE "read_item"]
  /\ UNCHANGED <<orders, args, result, pre, calls>>

\* products_container.replace_item, the low-stock check, and the loop step
ReplaceItem(p) ==
  /\ pc[p] = "replace_item"
  /\ LET product == loc[p].product IN
     /\ products' = [products EXCEPT ![product.id] = product]
     /\ loc' = [loc EXCEPT ![p] =
          [@ EXCEPT !.i = @ + 1,
                    !.warnings =
                       IF IsLowStock(product.stock_quantity)
                       THEN Append(@, LowStockWarning(product.name,
                                                      product.stock_quantity))
                       ELSE @]]
     /\ pc' = [pc EXCEPT ![p] =
                 IF loc[p].i + 1 > Len(args[p].order.items)
                 THEN "upsert_item" ELSE "read_item"]
  /\ UNCHANGED <<orders, args, result, pre, calls>>

\* an upsert of the order with every quantity cut to what the stock gave
UpsertOrderAsFilled(p) ==
  /\ pc[p] = "upsert_item"
  /\ orders' = UpsertItem(orders,
       [args[p].order EXCEPT !.items =
          [j \in DOMAIN @ |-> [@[j] EXCEPT !.quantity = loc[p].granted[j]]]])
  /\ pc' = [pc EXCEPT ![p] = "generate_invoice_pdf"]
  /\ UNCHANGED <<products, args, loc, result, pre, calls>>

\* orders_container.upsert_item(order)
UpsertOrder(p) ==
  /\ pc[p] = "upsert_item"
  /\ orders' = UpsertItem(orders, args[p].order)
  /\ pc' = [pc EXCEPT ![p] = "generate_invoice_pdf"]
  /\ UNCHANGED <<products, args, loc, result, pre, calls>>

\* generate_invoice_pdf(order) and the success return; the renderer may raise
GenerateInvoice(p, ok) ==
  /\ pc[p] = "generate_invoice_pdf"
  /\ IF ok
     THEN /\ pc' = [pc EXCEPT ![p] = "done"]
          /\ result' = [result EXCEPT ![p] =
               SuccessResult(loc[p].warnings, args[p].order.id)]
     ELSE /\ pc' = [pc EXCEPT ![p] = "raised"]
          /\ result' = [result EXCEPT ![p] = Raised("RenderFailed")]
  /\ UNCHANGED <<products, orders, args, loc, pre, calls>>

\* ------------------------------------------------------------------
\* adjust_stock
\* ------------------------------------------------------------------
CallAdjustStock(p, pid, adj) ==
  /\ Resting(p)
  /\ calls < MaxCalls
  /\ calls' = calls + 1
  /\ args' = [args EXCEPT ![p] =
                [NoArgs EXCEPT !.fn = "adjust_stock",
                               !.product_id = pid, !.adjustment = adj]]
  /\ loc' = [loc EXCEPT ![p] = NoLoc]
  /\ result' = [result EXCEPT ![p] = NoResult]
  /\ pre' = [pre EXCEPT ![p] = [products |-> products, orders |-> orders]]
  /\ pc' = [pc EXCEPT ![p] = "adj_read_item"]
  /\ UNCHANGED <<products, orders>>

\* products.read_item, += adjustment, clamp at 0
AdjustRead(p) ==
  /\ pc[p] = "adj_read_item"
  /\ IF args[p].product_id \notin DOMAIN products
     THEN /\ pc' = [pc EXCEPT ![p] = "raised"]
          /\ result' = [result EXCEPT ![p] = Raised("NotFound")]
          /\ UNCHANGED loc
     ELSE LET product == products[args[p].product_id]
              sum == product.stock_quantity + args[p].adjustment
          IN
          /\ loc' = [loc EXCEPT ![p] =
               [@ EXCEPT !.product =
                  [product EXCEPT !.stock_quantity = ClampAtZero(sum)]]]
          /\ pc' = [pc EXCEPT ![p] = "adj_replace_item"]
          /\ UNCHANGED result
  /\ UNCHANGED <<products, orders, args, pre, calls>>

\* a replace_item followed by the return of the quantity it replaced
AdjustReplaceReturnsOld(p) ==
  /\ pc[p] = "adj_replace_item"
  /\ products' = [products EXCEPT ![loc[p].product.id] = loc[p].product]
  /\ result' = [result EXCEPT ![p] =
       [NoResult EXCEPT !.status = "value",
                        !.value = products[loc[p].product.id].stock_quantity]]
  /\ pc' = [pc EXCEPT ![p] = "done"]
  /\ UNCHANGED <<orders, args, loc, pre, calls>>

\* products.replace_item and the return of the new quantity
AdjustReplace(p) ==
  /\ pc[p] = "adj_replace_item"
  /\ products' = [products EXCEPT ![loc[p].product.id] = loc[p].product]
  /\ result' = [result EXCEPT ![p] =
       [NoResult EXCEPT !.status = "value",
                        !.value = loc[p].product.stock_quantity]]
  /\ pc' = [pc EXCEPT ![p] = "done"]
  /\ UNCHANGED <<orders, args, loc, pre, calls>>

\* ------------------------------------------------------------------
\* Requests, one at a time (Spec) or interleaved (SpecConc)
\* ------------------------------------------------------------------
\* one request at a time, all of them served by one worker
SerialSubmitOrder ==
  /\ Quiescent
  /\ \E d \in Dates, e \in Emails, items \in ItemLists, allow \in BOOLEAN :
       CallPlaceOrder(SerialWorker, MakeOrder(d, e, items), allow)
  /\ UNCHANGED sumVars

SerialInventoryUpdate ==
  /\ Quiescent
  /\ \E pid \in CatalogIds \cup {MissingId}, adj \in Adjustments :
       CallAdjustStock(SerialWorker, pid, adj)
  /\ UNCHANGED sumVars

\* any worker may take a request while the others are in the middle of theirs
ConcSubmitOrder ==
  /\ \E p \in Procs, e \in Emails, items \in ConcItemLists,
        allow \in BOOLEAN :
       CallPlaceOrder(p, MakeOrder(ConcDate, e, items), allow)
  /\ UNCHANGED sumVars

ConcInventoryUpdate ==
  /\ \E p \in Procs, adj \in Adjustments :
       CallAdjustStock(p, ConcProduct, adj)
  /\ UNCHANGED sumVars
StepReadItem == (\E p \in Procs : ReadItem(p)) /\ UNCHANGED sumVars
StepReplaceItem == (\E p \in Procs : ReplaceItem(p)) /\ UNCHANGED sumVars
StepUpsertOrder == (\E p \in Procs : UpsertOrder(p)) /\ UNCHANGED sumVars
StepGenerateInvoice ==
  (\E p \in Procs, ok \in BOOLEAN : GenerateInvoice(p, ok))
  /\ UNCHANGED sumVars
StepAdjustRead == (\E p \in Procs : AdjustRead(p)) /\ UNCHANGED sumVars
StepAdjustReplace == (\E p \in Procs : AdjustReplace(p)) /\ UNCHANGED sumVars

Next ==
  \/ SerialSubmitOrder
  \/ SerialInventoryUpdate
  \/ StepReadItem
  \/ StepReplaceItem
  \/ StepUpsertOrder
  \/ StepGenerateInvoice
  \/ StepAdjustRead
  \/ StepAdjustReplace

Spec == Init /\ [][Next]_vars

NextConc ==
  \/ ConcSubmitOrder
  \/ ConcInventoryUpdate
  \/ StepReadItem
  \/ StepReplaceItem
  \/ StepUpsertOrder
  \/ StepGenerateInvoice
  \/ StepAdjustRead
  \/ StepAdjustReplace

SpecConc == Init /\ [][NextConc]_vars

\* ------------------------------------------------------------------
\* store_summary
\* ------------------------------------------------------------------
\* the summaries handed to store_summary: for each date, the summary of a
\* day without orders and the summary of a day with one order of 12 apples
Summaries ==
  {[date |-> d, total_orders |-> 0, total_revenue |-> 0,
    most_popular_product |-> "None"] : d \in Dates}
  \cup
  {[date |-> d, total_orders |-> 1,
    total_revenue |-> ItemsTotal(<<Item("prod_001", 12)>>),
    most_popular_product |-> "Apple"] : d \in Dates}

\* where the SQL part of a call fails, if it does
SqlFaults == {"none", "connect", "execute", "commit"}

InsertAlways(txn, rows, summary) == txn \cup {summary}

\* IF NOT EXISTS (SELECT 1 ... WHERE summary_date = ?) INSERT ... VALUES (...)
\* run on the connection, which sees its own uncommitted rows
InsertIfAbsent(txn, rows, summary) ==
  IF \E r \in rows \cup txn : r.date = summary.date
  THEN txn
  ELSE txn \cup {summary}

\* One call of store_summary(summary).  fault says where the SQL part
\* raises; keepTxn whether a failed commit leaves the open transaction in
\* place; pdfTry and pdfExcept whether generate_daily_summary_pdf returns
\* in the try block and in the except block.
StoreSummary(summary, fault, keepTxn, pdfTry, pdfExcept) ==
  /\ sumCalls < MaxSummaryCalls
  /\ fault = "connect" => ~sqlConn
  /\ LET executed == fault \in {"none", "commit"}
         committed == fault = "none"
         txn1 == IF executed THEN InsertIfAbsent(sqlTxn, sqlRows, summary)
                 ELSE sqlTxn
         inExcept == ~committed \/ ~pdfTry
         renderCalls == (IF committed THEN 1 ELSE 0)
                        + (IF inExcept THEN 1 ELSE 0)
         rendered == (IF committed /\ pdfTry THEN 1 ELSE 0)
                     + (IF inExcept /\ pdfExcept THEN 1 ELSE 0)
         returned == IF ~inExcept THEN "True"
                     ELSE IF pdfExcept THEN "False" ELSE "raised"
     IN
     /\ sqlConn' = (sqlConn \/ fault # "connect")
     /\ sqlRows' = IF committed THEN sqlRows \cup txn1 ELSE sqlRows
     /\ sqlTxn' = IF committed THEN {}
                  ELSE IF fault = "commit" /\ ~keepTxn THEN {} ELSE txn1
     /\ pdfs' = IF rendered > 0 THEN pdfs \cup {summary} ELSE pdfs
     /\ sumLast' = [returned |-> returned, summary |-> summary,
                    fault |-> fault, committed |-> committed,
                    renderCalls |-> renderCalls, rendered |-> rendered]
     /\ sumCalls' = sumCalls + 1

CallStoreSummary ==
  /\ \E summary \in Summaries, fault \in SqlFaults,
        keepTxn, pdfTry, pdfExcept \in BOOLEAN :
       StoreSummary(summary, fault, keepTxn, pdfTry, pdfExcept)
  /\ UNCHANGED <<orderVars, genLast>>

NextSummary == CallStoreSummary

SpecSummary == Init /\ [][NextSummary]_vars

\* ------------------------------------------------------------------
\* generate_daily_summary
\* ------------------------------------------------------------------
\* a query that forgets its WHERE clause
QueryOrdersAll(os, d) == os

\* SELECT * FROM c WHERE c.order_date = @date, in the order of the container
QueryOrders(os, d) == SelectSeq(os, LAMBDA o : o.order_date = d)

\* sum(o.get("order_total", 0) for o in orders)
RECURSIVE SumOrderTotals(_)
SumOrderTotals(os) ==
  IF os = <<>> THEN 0 ELSE os[1].order_total + SumOrderTotals(Tail(os))

\* product_totals is a dict: a sequence of keys with their values, in the
\* order in which the keys were first set
RECURSIVE DictIndex(_, _, _)
DictIndex(dict, key, k) ==
  IF k > Len(dict) THEN 0
  ELSE IF dict[k].key = key THEN k ELSE DictIndex(dict, key, k + 1)

\* product_totals[name] = product_totals.get(name, 0) + quantity
DictAdd(dict, key, n) ==
  LET k == DictIndex(dict, key, 1) IN
  IF k = 0 THEN Append(dict, [key |-> key, val |-> n])
  ELSE [dict EXCEPT ![k].val = @ + n]

\* for item in order.get("items", [])
RECURSIVE TallyItems(_, _)
TallyItems(dict, items) ==
  IF items = <<>> THEN dict
  ELSE TallyItems(DictAdd(dict, items[1].product_name, items[1].quantity),
                  Tail(items))

\* for order in orders
RECURSIVE TallyOrders(_, _)
TallyOrders(dict, os) ==
  IF os = <<>> THEN dict
  ELSE TallyOrders(TallyItems(dict, os[1].items), Tail(os))

\* a maximum that lets a later key of equal value win
RECURSIVE MaxKeyLast(_, _, _)
MaxKeyLast(dict, best, k) ==
  IF k > Len(dict) THEN dict[best].key
  ELSE MaxKeyLast(dict, IF dict[k].val >= dict[best].val THEN k ELSE best,
                  k + 1)

\* max(product_totals, key=product_totals.get): the first key, in the order
\* of the dict, whose value no later key exceeds
RECURSIVE MaxKeyFrom(_, _, _)
MaxKeyFrom(dict, best, k) ==
  IF k > Len(dict) THEN dict[best].key
  ELSE MaxKeyFrom(dict, IF dict[k].val > dict[best].val THEN k ELSE best,
                  k + 1)

GenerateDailySummary(os, summary_date) ==
  LET found == QueryOrders(os, summary_date)
      product_totals == TallyOrders(<<>>, found)
  IN
  [date |-> summary_date,
   total_orders |-> Len(found),
   total_revenue |-> SumOrderTotals(found),
   most_popular_product |->
     IF product_totals = <<>> THEN "None"
     ELSE MaxKeyFrom(product_totals, 1, 2)]

\* one call of generate_daily_summary(summary_date)
GenerateSummary(summary_date) ==
  /\ genLast' = [last |-> [date |-> summary_date,
                           summary |-> GenerateDailySummary(orders,
                                                            summary_date),
                           ordersAt |-> orders],
                 prev |-> genLast.last]
  /\ UNCHANGED <<orderVars, sqlVars>>

\* ------------------------------------------------------------------
\* Reporting runs: orders of several customers, and summaries in between
\* ------------------------------------------------------------------
ReportSubmitOrder ==
  /\ Quiescent
  /\ \E d \in Dates, e \in ReportEmails, items \in ReportItemLists :
       CallPlaceOrder(SerialWorker, MakeOrder(d, e, items), FALSE)
  /\ UNCHANGED sumVars

ReportGenerateSummary ==
  /\ Quiescent
  /\ \E d \in Dates : GenerateSummary(d)

NextReport ==
  \/ ReportSubmitOrder
  \/ ReportGenerateSummary
  \/ StepReadItem
  \/ StepReplaceItem
  \/ StepUpsertOrder
  \/ StepGenerateInvoice

SpecReport == Init /\ [][NextReport]_vars

\* ------------------------------------------------------------------
\* Properties
\* ------------------------------------------------------------------
IsOrder(p) == args[p].fn = "validate_and_place_order"
IsAdjust(p) == args[p].fn = "adjust_stock"
ItemsOf(p) == args[p].order.items
StockOf(ps, pid) == ps[pid].stock_quantity

\* units requested for product pid by the first n items
RECURSIVE RequestedFor(_, _, _)
RequestedFor(items, pid, n) ==
  IF n = 0 THEN 0
  ELSE RequestedFor(items, pid, n - 1)
       + (IF items[n].product_id = pid THEN items[n].quantity ELSE 0)

\* units taken from the stock of pid by the first n items of worker p's order
RECURSIVE GrantedFor(_, _, _)
GrantedFor(p, pid, n) ==
  IF n = 0 THEN 0
  ELSE GrantedFor(p, pid, n - 1)
       + (IF ItemsOf(p)[n].product_id = pid THEN loc[p].granted[n] ELSE 0)

RECURSIVE SeqSum(_)
SeqSum(sq) == IF sq = <<>> THEN 0 ELSE Head(sq) + SeqSum(Tail(sq))

\* what item j of worker p's order finds in stock when requests run one at
\* a time: the stock at the start of the call less what items 1..j-1 took
AvailableAt(p, j) ==
  LET pid == ItemsOf(p)[j].product_id IN
  StockOf(pre[p].products, pid) - GrantedFor(p, pid, j - 1)

\* C1: in every state reached by validate_and_place_order and adjust_stock
\* calls from the seeded catalog, every product's stock_quantity is >= 0.
StockNonNegative ==
  \A pid \in DOMAIN products : StockOf(products, pid) >= 0

\* an adjust_stock call that would have gone below zero has returned, after
\* an order had been placed
StockNonNegativeWitness ==
  \E p \in Procs :
    /\ pc[p] = "done" /\ IsAdjust(p)
    /\ StockOf(pre[p].products, args[p].product_id) + args[p].adjustment < 0
    /\ Len(orders) > 0

\* C2: two orders of 12 of the same product, both started on a stock of 20
\* and both returned, end as if run one after the other: exactly one is
\* filled with 12, the other is refused or filled with the remaining 8, at
\* most 20 units are granted, and the stock is 20 less the units granted.
ConcurrentOrdersSerialize ==
  LET taken(p) == SeqSum(loc[p].granted)
      filled == {p \in Procs : result[p].status = "success" /\ taken(p) = 12}
      total == taken("w1") + taken("w2")
  IN
  ( /\ calls = 2
    /\ \A p \in Procs :
         /\ pc[p] = "done"
         /\ IsOrder(p)
         /\ ItemsOf(p) = <<Item(ConcProduct, 12)>>
         /\ StockOf(pre[p].products, ConcProduct) = SeedStock )
  =>
  ( /\ Cardinality(filled) = 1
    /\ \A p \in Procs \ filled :
         \/ ~args[p].allow_preorder /\ result[p].status = "error"
         \/ args[p].allow_preorder /\ taken(p) = 8
    /\ total <= SeedStock
    /\ StockOf(products, ConcProduct) = SeedStock - total )

OversoldOrderRefused ==
  /\ \A q \in Procs :
       ( /\ IsOrder(q) /\ pc[q] \in {"done", "raised"}
         /\ ~args[q].allow_preorder
         /\ Len(ItemsOf(q)) = 1
         /\ ItemsOf(q)[1].product_id \in CatalogIds
         /\ ItemsOf(q)[1].quantity
              > StockOf(pre[q].products, ItemsOf(q)[1].product_id) ) =>
         (pc[q] = "done" /\ result[q].status = "error")
  /\ \A p \in Procs :
    (IsOrder(p) /\ pc[p] = "done" /\ result[p].status = "error") =>
      LET i == loc[p].i
          item == ItemsOf(p)[i]
          pid == item.product_id
      IN
      /\ ~args[p].allow_preorder
      /\ result[p].preorder = TRUE
      /\ result[p].message = result[p].available
      /\ item.quantity > result[p].available
      /\ result[p].available = StockOf(products, pid)
      /\ (\A j \in 1..(i - 1) : ItemsOf(p)[j].product_id # pid) =>
            /\ result[p].available = StockOf(pre[p].products, pid)
            /\ products[pid] = pre[p].products[pid]

\* an order of one item of 12 on a stock between 1 and 11 has been refused
OversoldOrderRefusedWitness ==
  \E p \in Procs :
    /\ pc[p] = "done" /\ IsOrder(p) /\ result[p].status = "error"
    /\ Len(ItemsOf(p)) = 1
    /\ result[p].available > 0
    /\ result[p].available = StockOf(pre[p].products, ItemsOf(p)[1].product_id)

\* C5: whenever validate_and_place_order returns status error, no
\* product's stock differs from its value before the call and no order
\* record has been written.
RefusedOrderChangesNothing ==
  \A p \in Procs :
    (IsOrder(p) /\ pc[p] = "done" /\ result[p].status = "error") =>
      /\ products = pre[p].products
      /\ orders = pre[p].orders

OrderRecordsAppendOnly ==
  [][\A k \in 1..Len(orders) :
       k <= Len(orders') /\ orders'[k] = orders[k]]_vars

\* C8: daily_summary holds at most one row per date, and a date that has a
\* row keeps exactly that row whatever is stored for the date later.
RowsOf(rows, d) == {r \in rows : r.date = d}

OneSummaryRowPerDate ==
  [][/\ \A d \in Dates : Cardinality(RowsOf(sqlRows', d)) <= 1
     /\ \A d \in Dates :
          RowsOf(sqlRows, d) # {} => RowsOf(sqlRows', d) = RowsOf(sqlRows, d)
    ]_vars

\* a summary with other totals has been stored and committed for a date
\* that had a row, and the row is the earlier one
OneSummaryRowPerDateWitness ==
  /\ sumLast.returned = "True"
  /\ sumCalls >= 2
  /\ \E r \in sqlRows :
       r.date = sumLast.summary.date /\ r # sumLast.summary

\* C9: every store_summary call renders the artifact, and a call whose SQL
\* part failed raises nothing and returns false.
SummaryFaultSwallowed ==
  sumLast.returned # "none" =>
    /\ sumLast.renderCalls >= 1
    /\ sumLast.fault # "none" => sumLast.returned = "False"

\* C10: store_summary returns true exactly when the insert-if-absent ran
\* and was committed, and false exactly when the SQL part failed, whatever
\* the renderer does.
SummaryReturnsStoreOutcome ==
  sumLast.returned # "none" =>
    /\ sumLast.returned = "True" <=> sumLast.committed
    /\ sumLast.returned = "False" <=> sumLast.fault # "none"

\* C11: a validate_and_place_order call that got every item through and
\* has written its order record ends by returning status success with the
\* order's id, whatever the invoice renderer does.
InvoiceFailureNonFatal ==
  \A p \in Procs :
    ( /\ IsOrder(p) /\ pc[p] \in {"done", "raised"}
      /\ Len(loc[p].granted) = Len(ItemsOf(p)) ) =>
      /\ pc[p] = "done"
      /\ result[p].status = "success"
      /\ result[p].order_id = args[p].order.id

\* the stored orders of date d, in the order of the container
RECURSIVE OrdersOn(_, _)
OrdersOn(os, d) ==
  IF os = <<>> THEN <<>>
  ELSE (IF os[1].order_date = d THEN <<os[1]>> ELSE <<>>)
       \o OrdersOn(Tail(os), d)

RECURSIVE ItemsOn(_, _)
ItemsOn(os, d) ==
  IF os = <<>> THEN <<>>
  ELSE (IF os[1].order_date = d THEN os[1].items ELSE <<>>)
       \o ItemsOn(Tail(os), d)

\* units of the product named n among the first k of the line items
RECURSIVE UnitsOf(_, _, _)
UnitsOf(items, n, k) ==
  IF k = 0 THEN 0
  ELSE UnitsOf(items, n, k - 1)
       + (IF items[k].product_name = n THEN items[k].quantity ELSE 0)

\* revenue of the orders of date d among the first k stored orders
RECURSIVE RevenueOn(_, _, _)
RevenueOn(os, d, k) ==
  IF k = 0 THEN 0
  ELSE RevenueOn(os, d, k - 1)
       + (IF os[k].order_date = d THEN os[k].order_total ELSE 0)

FirstSeen(items, n) ==
  CHOOSE i \in 1..Len(items) :
    /\ items[i].product_name = n
    /\ \A j \in 1..(i - 1) : items[j].product_name # n

Min(a, b) == IF a <= b THEN a ELSE b

\* C14: the items of one order are applied one after the other: each item
\* takes the smaller of its quantity and the stock left by the earlier items
\* of the order, an item that is refused asked for more than the earlier
\* items left, and on success each product's stock has dropped by the sum of
\* what its items took.
RepeatedProductCumulative ==
  \A p \in Procs :
    IsOrder(p) =>
      /\ \A j \in 1..Len(loc[p].granted) :
           loc[p].granted[j] = Min(ItemsOf(p)[j].quantity, AvailableAt(p, j))
      /\ (pc[p] = "done" /\ result[p].status = "error") =>
           /\ ItemsOf(p)[loc[p].i].quantity > AvailableAt(p, loc[p].i)
           /\ result[p].available = AvailableAt(p, loc[p].i)
      /\ (pc[p] = "done" /\ result[p].status = "success") =>
           \A pid \in CatalogIds :
             StockOf(products, pid) =
               StockOf(pre[p].products, pid)
               - GrantedFor(p, pid, Len(ItemsOf(p)))

\* a pre-order of 12 and 12 of one product on a stock of 20 has returned:
\* the items took 12 and 8
RepeatedProductCumulativeWitness ==
  \E p \in Procs :
    /\ IsOrder(p) /\ pc[p] = "done" /\ result[p].status = "success"
    /\ Len(ItemsOf(p)) = 2
    /\ ItemsOf(p)[1].product_id = ItemsOf(p)[2].product_id
    /\ StockOf(pre[p].products, ItemsOf(p)[1].product_id) = 20
    /\ loc[p].granted = <<12, 8>>
    /\ StockOf(products, ItemsOf(p)[1].product_id) = 0

\* the stock of its product right after the decrement of item j
StockAfterItem(p, j) == AvailableAt(p, j) - loc[p].granted[j]

\* the low-stock warnings due for the first n items, in item order
RECURSIVE LowStockDue(_, _)
LowStockDue(p, n) ==
  IF n = 0 THEN <<>>
  ELSE LowStockDue(p, n - 1)
       \o (IF StockAfterItem(p, n) < LowStockThreshold
           THEN <<LowStockWarning(ItemsOf(p)[n].product_name,
                                  StockAfterItem(p, n))>>
           ELSE <<>>)

IsLowStockWarning(w) == w[1] = "Low stock alert:"

\* C15: in a call that returns success, the low-stock warnings among the
\* warnings are, in item order, one for each item whose product's stock
\* right after the item's decrement is below 10, reporting that stock, and
\* none for any other item.
LowStockWarningsExact ==
  \A p \in Procs :
    (IsOrder(p) /\ pc[p] = "done" /\ result[p].status = "success") =>
      SelectSeq(result[p].warnings, IsLowStockWarning)
        = LowStockDue(p, Len(ItemsOf(p)))

\* an order of two items has returned with a low-stock warning for the
\* second item only: the first left 10 or more, the second left some
LowStockWarningsExactWitness ==
  \E p \in Procs :
    /\ IsOrder(p) /\ pc[p] = "done" /\ result[p].status = "success"
    /\ Len(ItemsOf(p)) = 2
    /\ StockAfterItem(p, 1) >= LowStockThreshold
    /\ StockAfterItem(p, 2) > 0
    /\ result[p].warnings =
         <<LowStockWarning(ItemsOf(p)[2].product_name, StockAfterItem(p, 2))>>

\* C16: a validate_and_place_order call that reaches an item whose product
\* is not in the catalog ends with the container's fault, not with a status
\* error result; it has written no order record, and every product's stock
\* is its value before the call less what the earlier items took.
MissingProductAborts ==
  \A p \in Procs :
    IsOrder(p) =>
      /\ ( /\ pc[p] \in {"done", "raised"}
           /\ loc[p].i <= Len(ItemsOf(p))
           /\ ItemsOf(p)[loc[p].i].product_id \notin CatalogIds ) =>
           (pc[p] = "raised" /\ result[p].status = "NotFound")
      /\ (pc[p] = "raised" /\ result[p].status = "NotFound") =>
           /\ ItemsOf(p)[loc[p].i].product_id \notin CatalogIds
           /\ Len(loc[p].granted) = loc[p].i - 1
           /\ orders = pre[p].orders
           /\ \A pid \in CatalogIds :
                StockOf(products, pid) =
                  StockOf(pre[p].products, pid)
                  - GrantedFor(p, pid, loc[p].i - 1)

\* an order whose second item names a missing product has ended with the
\* fault, and the 12 units of its first item are gone from the stock
MissingProductAbortsWitness ==
  \E p \in Procs :
    /\ IsOrder(p) /\ pc[p] = "raised" /\ result[p].status = "NotFound"
    /\ loc[p].i = 2
    /\ loc[p].granted = <<12>>
    /\ StockOf(products, ItemsOf(p)[1].product_id)
         = StockOf(pre[p].products, ItemsOf(p)[1].product_id) - 12
    /\ orders = pre[p].orders

\* C17: adjust_stock(p, a) leaves product p with stock max(0, previous + a)
\* and otherwise as it was, returns that stock, and changes no other product
\* and no order record.
AdjustStockClampsAndReturns ==
  \A p \in Procs :
    (IsAdjust(p) /\ pc[p] = "done") =>
      LET pid == args[p].product_id
          sum == StockOf(pre[p].products, pid) + args[p].adjustment
          want == IF sum > 0 THEN sum ELSE 0
      IN
      /\ products[pid] = [pre[p].products[pid] EXCEPT !.stock_quantity = want]
      /\ result[p].status = "value"
      /\ result[p].value = want
      /\ \A other \in DOMAIN products \ {pid} :
           products[other] = pre[p].products[other]
      /\ orders = pre[p].orders

\* with an order on record, adjust_stock has taken 15 from a stock of 8 and
\* returned 0
AdjustStockClampsAndReturnsWitness ==
  \E p \in Procs :
    /\ IsAdjust(p) /\ pc[p] = "done"
    /\ args[p].adjustment = -15
    /\ StockOf(pre[p].products, args[p].product_id) = 8
    /\ result[p].value = 0
    /\ orders # <<>>

\* C18: however the read and write steps of concurrent
\* validate_and_place_order and adjust_stock calls on one product
\* interleave, every stock_quantity in the container, and every
\* stock_quantity a call is about to write, is >= 0.
StockWritesNonNegative ==
  /\ \A pid \in DOMAIN products : StockOf(products, pid) >= 0
  /\ \A p \in Procs :
       pc[p] \in {"replace_item", "adj_replace_item"} =>
         loc[p].product.stock_quantity >= 0

\* two orders have raced on one product and an update is lost: together
\* they took more units than the stock went down, and the stock is in range
StockWritesNonNegativeWitness ==
  \E p, q \in Procs :
    /\ p # q /\ calls = 2
    /\ IsOrder(p) /\ pc[p] = "done" /\ result[p].status = "success"
    /\ IsOrder(q) /\ pc[q] = "done" /\ result[q].status = "success"
    /\ SeqSum(loc[p].granted) + SeqSum(loc[q].granted)
         > SeedStock - StockOf(products, ConcProduct)
    /\ StockOf(products, ConcProduct) >= 0

\* C19: once a call has written its order record, the record is the order
\* as submitted: every line item keeps the quantity requested, also where
\* the stock gave less, and order_total is the total of the requested
\* quantities.
OrderStoredAsSubmitted ==
  \A p \in Procs :
    ( /\ IsOrder(p)
      /\ \/ pc[p] = "generate_invoice_pdf"
         \/ pc[p] = "done" /\ result[p].status = "success"
         \/ pc[p] = "raised" /\ result[p].status = "RenderFailed" ) =>
      \E k \in 1..Len(orders) :
        /\ orders[k] = args[p].order
        /\ \A j \in 1..Len(ItemsOf(p)) :
             /\ orders[k].items[j].quantity = ItemsOf(p)[j].quantity
             /\ loc[p].granted[j] <= orders[k].items[j].quantity
        /\ orders[k].order_total = ItemsTotal(ItemsOf(p))

\* the first call, a pre-order, has returned with less taken from the stock
\* than requested, and the tally of generate_daily_summary for its date
\* counts more units of the product than have left the stock
OrderStoredAsSubmittedWitness ==
  \E p \in Procs :
    /\ IsOrder(p) /\ pc[p] = "done" /\ result[p].status = "success"
    /\ args[p].allow_preorder /\ calls = 1
    /\ LET product_totals ==
             TallyOrders(<<>>, QueryOrders(orders, args[p].order.order_date))
           pid == ItemsOf(p)[1].product_id
       IN
       /\ Len(product_totals) = 1
       /\ product_totals[1].key = ProductName(pid)
       /\ product_totals[1].val > SeedStock - StockOf(products, pid)
       /\ SeedStock - StockOf(products, pid) = SeqSum(loc[p].granted)

====
